---------------------------- MODULE Spec2Model ----------------------------
(***************************************************************************)
(* Model of the OpenMM cubes of openmm_orion:                              *)
(*   - the GPU lock arbiter  simtools.local_cluster  (Spec),               *)
(*   - the platform / precision negotiation of simtools.simulation         *)
(*     (SpecNeg),                                                          *)
(*   - the process() method of the Minimize / NVT / NPT cubes (SpecCube).  *)
(***************************************************************************)
EXTENDS Integers, Sequences, FiniteSets, TLC

(***************************************************************************)
(* Bounds of the model.                                                    *)
(***************************************************************************)
NProcs == 2         \* worker processes calling simulation() concurrently
MaxDevices == 2     \* longest CUDA_VISIBLE_DEVICES list
MaxJobId == 2       \* job identifiers opt['system_id'] are 0..MaxJobId
MaxBodyRetries == 1 \* cap on the re-invocations of the body in one wrapper call

Procs == 1 .. NProcs
DeviceIds == 0 .. (MaxDevices - 1)
JobIds == 0 .. MaxJobId

None == "None"
Free == 0           \* value of lock[d] when nobody holds the flock of d

(* errno values, module errno *)
EACCES == 13
EAGAIN == 11

(* CUDA_VISIBLE_DEVICES.split(','): the lists the model takes are the last *)
(* n devices of the host, n = 1 .. MaxDevices (<<1>> and <<0, 1>> for two  *)
(* devices), so that a device id differs from its index in the list.       *)
DeviceLists ==
    { [ i \in 1 .. n |-> MaxDevices - n + i - 1 ] : n \in 1 .. MaxDevices }

(* Exceptions the simulation body can raise: an IOError whose errno is     *)
(* EACCES, an IOError with another errno, any other Exception.             *)
BodyExc == { "IOError_EACCES", "IOError_other", "Exception" }

(* errno of the IOError a failed flock(LOCK_EX | LOCK_NB) raises: EACCES or *)
(* EAGAIN, depending on the operating system (EAGAIN on Linux).            *)
BusyErrnos == { EACCES, EAGAIN }

VARIABLES
    cudaVisible,   \* 'CUDA_VISIBLE_DEVICES' in os.environ
    inOrion,       \* in_orion()
    gpus,          \* gpus_available_indexes
    pc,            \* position of each process in wrapper()
    opt,           \* the option dictionary of each call
    lock,          \* holder of the flock of /tmp/<gpu_id>.txt, or Free
    audit,         \* the set of lines /tmp/<gpu_id>.txt holds
    hist,          \* what each wrapper call has done so far
    outcome,       \* how each wrapper call ended
    neg,           \* a call of simulation() at its platform selection
    record,        \* the data record handed from cube to cube
    cube,          \* what the last call of a cube's process() did
    stage          \* a call of the body of simulation() and what it did

vars == << cudaVisible, inOrion, gpus, pc, opt, lock, audit, hist, outcome,
           neg, record, cube, stage >>

cubeVars == << record, cube, stage >>

arbVars == << pc, opt, lock, audit, hist, outcome >>

envVars == << cudaVisible, inOrion, gpus >>


NoValue == 0 - 1    \* value slot of a key that is not in the dictionary

(* The dictionaries a caller can pass as args[1]: without the entries     *)
(* 'system_id' and 'system_title' (as the cubes build it) or with both.    *)
(* keys is the set of keys the dictionary holds.                           *)
OptInputs ==
    { o \in [ keys : { {}, { "system_id", "system_title" } },
              system_id : JobIds \cup {NoValue}, gpu_id : {NoValue} ] :
        (o.system_id = NoValue) <=> ("system_id" \notin o.keys) }

NoOpt == [ keys |-> {}, system_id |-> NoValue, gpu_id |-> NoValue ]
NoHist == [ tried |-> {}, bodyCalls |-> 0, slept |-> FALSE ]
NoOutcome == [ exc |-> None, cause |-> None ]

-----------------------------------------------------------------------------
(* local_cluster.wrapper                                                   *)

(* the arbiter switched on by the device list alone *)
ArbiterIgnoresOrion == cudaVisible

(* line 17: 'CUDA_VISIBLE_DEVICES' in os.environ and not in_orion() *)
ArbiterActive == cudaVisible /\ ~inOrion

(* a retry that moves on to the next device of the list *)
TargetHops(p) ==
    gpus[((opt[p].system_id + Cardinality(hist[p].tried)) % Len(gpus)) + 1]

(* line 25: gpus_available_indexes[opt['system_id'] % len(...)]; Python    *)
(* lists are indexed from 0, sequences from 1.                             *)
TargetDevice(p) == gpus[(opt[p].system_id % Len(gpus)) + 1]

(* a lock that is granted whoever holds it *)
FlockAlways(d) == TRUE

(* line 30: flock(file, LOCK_EX | LOCK_NB) succeeds iff no other open file *)
(* description holds the lock of that file.                                *)
FlockSucceeds(d) == lock[d] = Free

(* a way out of the with-block that leaves the lock in place *)
CloseFileLeaks(p) == lock

(* lines 29 and 39: flock(LOCK_UN), and the with-block closing the file on *)
(* every way out of it; closing the file drops the flock held through it.  *)
CloseFile(p) == [ d \in DeviceIds |-> IF lock[d] = p THEN Free ELSE lock[d] ]

(* a lock that outlives the process that took it *)
ProcessExitStale(p) == lock

(* lines 29-30: the lock belongs to the open file of the process; when the *)
(* process ends the OS closes the file and the lock is gone.               *)
ProcessExit(p) == [ d \in DeviceIds |-> IF lock[d] = p THEN Free ELSE lock[d] ]

(* lines 31-35: the line appended to the lock file *)
AuditLine(p, d) == [ MOL_ID |-> opt[p].system_id, GPU_ID |-> d ]

(* the IOError of a flock that fails with errno n *)
BusyExc(n) == IF n = EACCES THEN "IOError_EACCES" ELSE "IOError_other"

(* lines 41-49: what the handlers do with an exception raised inside the   *)
(* try block, the file being closed by then. "retry" is time.sleep(0.1)    *)
(* and the next turn of the loop; in the other handlers the unlock of the  *)
(* closed file raises ValueError before the intended raise is reached.     *)
Handler(e) ==
    CASE e = "IOError_EACCES" -> "retry"
      [] e = "IOError_other"  -> "ValueError"
      [] OTHER                -> "ValueError"

Ended(p, e, c) ==
    /\ pc' = [pc EXCEPT ![p] = "raised"]
    /\ outcome' = [outcome EXCEPT ![p] = [ exc |-> e, cause |-> c ]]

(* lines 16-22 and 51: entry of the wrapper; without the arbiter the body  *)
(* is called at once.                                                      *)
Call(p) ==
    /\ pc[p] = "idle"
    /\ \E o \in OptInputs : opt' = [opt EXCEPT ![p] = o]
    /\ IF ArbiterActive
         THEN /\ pc' = [pc EXCEPT ![p] = "loop"]
              /\ hist' = hist
         ELSE /\ pc' = [pc EXCEPT ![p] = "bypass"]
              /\ hist' = [hist EXCEPT ![p].bodyCalls = 1]
    /\ UNCHANGED << envVars, lock, audit, outcome, neg, cubeVars >>

(* the calls of the body of one wrapper call are counted up to            *)
(* MaxBodyRetries + 1; the loop of line 23 has no bound.                   *)
Counted(n) == IF n <= MaxBodyRetries THEN n + 1 ELSE n

(* lines 23-37 and 41-46: one turn of the loop (after time.sleep(0.1) when *)
(* it is not the first) up to the call of the body.                        *)
Attempt(p) ==
    /\ pc[p] \in { "loop", "sleeping" }
    /\ IF "system_id" \notin opt[p].keys
         THEN \* line 25 is outside the try block: KeyError leaves the wrapper
              /\ Ended(p, "KeyError", "system_id")
              /\ UNCHANGED << opt, lock, audit, hist >>
         ELSE LET d == TargetDevice(p) IN
              IF FlockSucceeds(d)
                THEN /\ lock' = [lock EXCEPT ![d] = p]
                     /\ audit' = [audit EXCEPT ![d] = @ \cup {AuditLine(p, d)}]
                     /\ opt' = [opt EXCEPT ![p].gpu_id = d,
                                           ![p].keys = @ \cup {"gpu_id"}]
                     /\ hist' = [hist EXCEPT ![p].tried = @ \cup {d},
                                             ![p].bodyCalls = Counted(@)]
                     /\ pc' = [pc EXCEPT ![p] = "body"]
                     /\ UNCHANGED outcome
                ELSE \E n \in BusyErrnos :
                       /\ IF Handler(BusyExc(n)) = "retry"
                            THEN /\ pc' = [pc EXCEPT ![p] = "sleeping"]
                                 /\ hist' = [hist EXCEPT ![p].tried = @ \cup {d},
                                                         ![p].slept = TRUE]
                                 /\ UNCHANGED outcome
                            ELSE /\ Ended(p, Handler(BusyExc(n)), "contention")
                                 /\ hist' = [hist EXCEPT ![p].tried = @ \cup {d}]
                       /\ UNCHANGED << opt, lock, audit >>
    /\ UNCHANGED << envVars, neg, cubeVars >>

(* lines 37-40: the body returns; time.sleep(2.0) with the lock held, then *)
(* flock(LOCK_UN), break, and the with-block closes the file.              *)
BodyReturn(p) ==
    /\ pc[p] = "body"
    /\ lock' = CloseFile(p)
    /\ pc' = [pc EXCEPT ![p] = "returned"]
    /\ UNCHANGED << envVars, opt, audit, hist, outcome, neg, cubeVars >>

(* lines 37 and 41-49: the body raises e; the with-block closes the file   *)
(* before a handler runs.                                                  *)
BodyRaise(p) ==
    /\ pc[p] = "body"
    /\ \E e \in BodyExc :
         /\ lock' = CloseFile(p)
         /\ IF Handler(e) = "retry"
              THEN /\ pc' = [pc EXCEPT ![p] = "sleeping"]
                   /\ hist' = [hist EXCEPT ![p].slept = TRUE]
                   /\ UNCHANGED outcome
              ELSE /\ Ended(p, Handler(e), "body")
                   /\ UNCHANGED hist
    /\ UNCHANGED << envVars, opt, audit, neg, cubeVars >>

(* line 51: the body called without the arbiter returns *)
BypassReturn(p) ==
    /\ pc[p] = "bypass"
    /\ pc' = [pc EXCEPT ![p] = "returned"]
    /\ UNCHANGED << envVars, opt, lock, audit, hist, outcome, neg, cubeVars >>

(* line 51: the body called without the arbiter raises e, which leaves the *)
(* wrapper as it is.                                                       *)
BypassRaise(p) ==
    /\ pc[p] = "bypass"
    /\ \E e \in BodyExc : Ended(p, e, "body")
    /\ UNCHANGED << envVars, opt, lock, audit, hist, neg, cubeVars >>

(* the worker pool terminates the process (item_timeout) while it holds a  *)
(* lock; a process terminated elsewhere holds nothing and just stops.      *)
Kill(p) ==
    /\ pc[p] = "body"
    /\ lock' = ProcessExit(p)
    /\ pc' = [pc EXCEPT ![p] = "killed"]
    /\ UNCHANGED << envVars, opt, audit, hist, outcome, neg, cubeVars >>

(* the environment of the process: os.environ and in_orion() *)
InitEnv ==
    /\ cudaVisible \in BOOLEAN
    /\ inOrion \in BOOLEAN
    /\ gpus \in IF cudaVisible THEN DeviceLists ELSE { << >> }

(* no process has called the wrapper, no lock file exists *)
InitArbiter ==
    /\ pc = [ p \in Procs |-> "idle" ]
    /\ opt = [ p \in Procs |-> NoOpt ]
    /\ lock = [ d \in DeviceIds |-> Free ]
    /\ audit = [ d \in DeviceIds |-> {} ]
    /\ hist = [ p \in Procs |-> NoHist ]
    /\ outcome = [ p \in Procs |-> NoOutcome ]

NoNeg == [ avail |-> {}, ctx |-> {}, platform |-> None, precision |-> None,
           gpu_id |-> NoValue, runs |-> << >> ]

(* The values of opt['temperature'] and opt['pressure']: a Python float,   *)
(* a Python str, or no entry under the key.                                *)
Float(x) == [ float |-> x ]
Str(s) == [ str |-> s ]
Missing == [ missing |-> TRUE ]
IsFloat(v) == DOMAIN v = { "float" }

(* a molecule without SD data *)
NoTags == [ k \in {} |-> "" ]

NoOpts == [ SimType |-> None, hmr |-> FALSE, time |-> NoValue,
            trajectory_interval |-> NoValue, reporter_interval |-> NoValue,
            steps |-> NoValue, timestep |-> NoValue,
            temperature |-> Missing, pressure |-> Missing,
            outfname |-> "", str_logger |-> << >> ]
NoRecord == [ hasMol |-> FALSE, hasId |-> FALSE, hasStages |-> FALSE,
              stages |-> << >>, tags |-> NoTags ]
NoCall == [ calls |-> 0, kind |-> None, input |-> NoRecord, ports |-> << >>,
            exc |-> None, lockAttempts |-> 0, bodyCalls |-> 0,
            config |-> NoOpts, self |-> NoOpts ]
NoStructure == [ positions |-> 0, velocities |-> FALSE, box |-> FALSE ]
NoRun == [ exc |-> None, events |-> << >>, SimType |-> None,
           timestep |-> NoValue, temperature |-> Missing, pressure |-> Missing,
           barostat |-> NoValue,
           platform |-> [ status |-> None, error |-> None, platform |-> None,
                          precision |-> None, deviceIndex |-> NoValue,
                          platformsTried |-> << >>, precisionsTried |-> << >> ],
           steps |-> NoValue, reporters |-> << >>, total_frames |-> NoValue,
           passes |-> << >>, structure |-> NoStructure ]
NoStage == [ structure |-> NoStructure, opts |-> NoOpts, calls |-> 0,
             result |-> NoRun ]

(* no record has reached a cube, the body of no stage was called *)
InitNoCube ==
    /\ record = NoRecord
    /\ cube = NoCall
    /\ stage = NoStage

Init ==
    /\ InitEnv
    /\ InitArbiter
    /\ neg = NoNeg
    /\ InitNoCube

Next ==
    \E p \in Procs :
        \/ Call(p)
        \/ Attempt(p)
        \/ BodyReturn(p)
        \/ BodyRaise(p)
        \/ BypassReturn(p)
        \/ BypassRaise(p)
        \/ Kill(p)

Spec == Init /\ [][Next]_vars

(* one step of process p in the wrapper *)
Step(p) ==
    \/ Call(p)
    \/ Attempt(p)
    \/ BodyReturn(p)
    \/ BodyRaise(p)
    \/ BypassReturn(p)
    \/ BypassRaise(p)

(* The jobs of a workload run as separate processes of the operating       *)
(* system, which gives each of them processor time again and again: a      *)
(* process that can take a step of the wrapper eventually takes one. The   *)
(* termination of a process by the worker pool is under no such            *)
(* obligation.                                                             *)
Fairness == \A p \in Procs : WF_vars(Step(p))

SpecLive == Init /\ [][Next]_vars /\ Fairness

-----------------------------------------------------------------------------
(* simulation(): platform selection, lines 160-212                         *)

MaxNegRuns == 2     \* calls of simulation() on one host with one dictionary

Platforms == { "CUDA", "OpenCL", "CPU", "Reference" }
GpuPlatforms == { "CUDA", "OpenCL" }
Precisions == { "mixed", "single", "double" }

(* an order that prefers OpenCL to CUDA *)
PlatformOrderOpenCLFirst == << "OpenCL", "CUDA", "CPU", "Reference" >>

(* line 164 *)
PlatformOrder == << "CUDA", "OpenCL", "CPU", "Reference" >>

(* an order that starts with the cheapest precision *)
PrecisionOrderSingleFirst == << "single", "mixed", "double" >>

(* line 174 *)
PrecisionOrder == << "mixed", "single", "double" >>

(* lines 166 and 196: Platform.getPlatformByName(name) returns a platform  *)
(* iff the host has it, and raises otherwise.                              *)
GetPlatformByName(name) == name \in neg.avail

(* lines 182, 193, 205 and 212: app.Simulation(...) creates the context;   *)
(* on a GPU platform it raises unless the host supports the precision.     *)
CreateSimulation(platform, precision) ==
    platform \in GpuPlatforms => precision \in neg.ctx

(* lines 164-172: the loop over the platform names; tried is the number of *)
(* names the loop went through.                                            *)
RECURSIVE AutoPlatform(_)
AutoPlatform(i) ==
    LET plt_name == PlatformOrder[i] IN
    IF GetPlatformByName(plt_name)
      THEN [ found |-> TRUE, platform |-> plt_name, tried |-> i ]
      ELSE IF plt_name = "Reference"
             THEN [ found |-> FALSE, platform |-> None, tried |-> i ]
             ELSE AutoPlatform(i + 1)

(* lines 174-191: the loop over the precisions *)
RECURSIVE AutoPrecision(_, _)
AutoPrecision(platform, i) ==
    LET precision == PrecisionOrder[i] IN
    IF CreateSimulation(platform, precision)
      THEN [ found |-> TRUE, precision |-> precision, tried |-> i ]
      ELSE IF precision = "double"
             THEN [ found |-> FALSE, precision |-> None, tried |-> i ]
             ELSE AutoPrecision(platform, i + 1)

(* lines 179-180: properties['DeviceIndex'] *)
DeviceIndex ==
    IF neg.gpu_id # NoValue /\ cudaVisible /\ ~inOrion THEN neg.gpu_id ELSE NoValue

Fatal(msg, platformsTried, precisionsTried) ==
    [ status |-> "fatal", error |-> msg, platform |-> None, precision |-> None,
      deviceIndex |-> NoValue,
      platformsTried |-> platformsTried, precisionsTried |-> precisionsTried ]

Selected(platform, precision, deviceIndex, platformsTried, precisionsTried) ==
    [ status |-> "ok", error |-> None, platform |-> platform,
      precision |-> precision, deviceIndex |-> deviceIndex,
      platformsTried |-> platformsTried, precisionsTried |-> precisionsTried ]

(* lines 161-193: opt['platform'] == 'Auto' *)
NegotiateAuto ==
    LET plt == AutoPlatform(1)
        pTried == SubSeq(PlatformOrder, 1, plt.tried)
    IN  IF ~plt.found
          THEN Fatal("no platform", pTried, << >>)
          ELSE IF plt.platform \in GpuPlatforms
                 THEN LET prec == AutoPrecision(plt.platform, 1)
                          cTried == SubSeq(PrecisionOrder, 1, prec.tried)
                      IN  IF prec.found
                            THEN Selected(plt.platform, prec.precision,
                                          DeviceIndex, pTried, cTried)
                            ELSE Fatal("no precision", pTried, cTried)
                 ELSE Selected(plt.platform, None, NoValue, pTried, << >>)

(* an explicit platform the host lacks quietly replaced by the Auto search *)
NegotiateExplicitFallsBack ==
    IF ~GetPlatformByName(neg.platform)
      THEN NegotiateAuto
      ELSE IF neg.platform \in GpuPlatforms
             THEN IF CreateSimulation(neg.platform, neg.precision)
                    THEN Selected(neg.platform, neg.precision, NoValue,
                                  << neg.platform >>, << neg.precision >>)
                    ELSE Fatal("precision not set", << neg.platform >>,
                               << neg.precision >>)
             ELSE Selected(neg.platform, None, NoValue, << neg.platform >>, << >>)

(* lines 194-212: an explicit platform *)
NegotiateExplicit ==
    IF ~GetPlatformByName(neg.platform)
      THEN Fatal("platform not supported", << neg.platform >>, << >>)
      ELSE IF neg.platform \in GpuPlatforms
             THEN IF CreateSimulation(neg.platform, neg.precision)
                    THEN Selected(neg.platform, neg.precision, NoValue,
                                  << neg.platform >>, << neg.precision >>)
                    ELSE Fatal("precision not set", << neg.platform >>,
                               << neg.precision >>)
             ELSE Selected(neg.platform, None, NoValue, << neg.platform >>, << >>)

(* lines 160-212 *)
Negotiation == IF neg.platform = "Auto" THEN NegotiateAuto ELSE NegotiateExplicit

(* one call of simulation() reaches its platform selection *)
Negotiate ==
    /\ Len(neg.runs) < MaxNegRuns
    /\ neg' = [neg EXCEPT !.runs = Append(@, Negotiation)]
    /\ UNCHANGED << envVars, arbVars, cubeVars >>

(* the hosts and the dictionaries of the model; opt['gpu_id'] is set by    *)
(* the arbiter alone, line 36.                                             *)
InitNeg ==
    /\ InitEnv
    /\ InitArbiter
    /\ neg \in [ avail : SUBSET Platforms,
                ctx : SUBSET Precisions,
                platform : { "Auto" } \cup Platforms,
                precision : Precisions,
                gpu_id : IF ArbiterActive
                           THEN { gpus[i] : i \in DOMAIN gpus }
                           ELSE { NoValue },
                runs : { << >> } ]
    /\ InitNoCube

NextNeg == Negotiate

SpecNeg == InitNeg /\ [][NextNeg]_vars

-----------------------------------------------------------------------------
(* simulation(): the body of a stage, lines 56-363, and getReporters()     *)

(* lines 117-122: the frequency of the MonteCarloBarostat *)
BarostatFrequency == 25

(* Numbers of the option dictionary (time, trajectory_interval,            *)
(* reporter_interval) are written in millionths: 10000000 is 10.0, 500000  *)
(* is 0.5. A time step is written in femtoseconds, which is its value in   *)
(* nanoseconds in millionths and its value in picoseconds in thousandths.  *)

(* int(round(n / d)) of Python 3 for n >= 0 and d > 0: to the nearest      *)
(* integer, a half to the even one.                                        *)
Round(n, d) ==
    LET q == n \div d
        r == n % d
    IN  IF 2 * r < d THEN q
        ELSE IF 2 * r > d THEN q + 1
        ELSE IF q % 2 = 0 THEN q ELSE q + 1

(* lines 77-82: stepLen, 0.004 ps with hmr and 0.002 ps without, in fs *)
StepLen(opts) == IF opts.hmr THEN 4 ELSE 2

(* lines 235, 396 and 417: stepLen.in_units_of(unit.nanoseconds) /         *)
(* unit.nanoseconds, in millionths.                                        *)
InNanoseconds(stepLen) == stepLen

(* a barostat in every dynamics stage *)
NeedsBarostatMD(simType) == simType \in { "nvt", "npt" }

(* line 117: if opt['SimType'] == 'npt' *)
NeedsBarostat(simType) == simType = "npt"

(* thermal velocities drawn whatever the snapshot holds *)
VelocityPathAlwaysFresh(simType, velocities) ==
    IF simType \in { "nvt", "npt" }
      THEN IF velocities THEN << "setVelocities", "setVelocitiesToTemperature" >>
                         ELSE << "setVelocitiesToTemperature" >>
      ELSE << >>

(* lines 224-232: velocities is mdData.velocities is not None *)
VelocityPath(simType, velocities) ==
    IF simType \in { "nvt", "npt" }
      THEN IF velocities THEN << "setVelocities" >>
                         ELSE << "setVelocitiesToTemperature" >>
      ELSE << >>

(* the two channels tied: one interval switches both on *)
GetReportersTied(opts) ==
    LET on == opts.reporter_interval # 0 \/ opts.trajectory_interval # 0
    IN  ( IF on
            THEN LET reporter_steps ==
                         Round(opts.reporter_interval, InNanoseconds(opts.timestep))
                 IN  << [ sink |-> "log", reportInterval |-> reporter_steps ],
                        [ sink |-> "stdout", reportInterval |-> reporter_steps ] >>
            ELSE << >> )
        \o
        ( IF on
            THEN LET trajectory_steps ==
                         Round(opts.trajectory_interval, InNanoseconds(opts.timestep))
                 IN  << [ sink |-> "h5", reportInterval |-> trajectory_steps ] >>
            ELSE << >> )

(* lines 393-421, getReporters: the reporters and their reportInterval *)
GetReporters(opts) ==
    ( IF opts.reporter_interval # 0
        THEN LET reporter_steps ==
                     Round(opts.reporter_interval, InNanoseconds(opts.timestep))
             IN  << [ sink |-> "log", reportInterval |-> reporter_steps ],
                    [ sink |-> "stdout", reportInterval |-> reporter_steps ] >>
        ELSE << >> )
    \o
    ( IF opts.trajectory_interval # 0
        THEN LET trajectory_steps ==
                     Round(opts.trajectory_interval, InNanoseconds(opts.timestep))
             IN  << [ sink |-> "h5", reportInterval |-> trajectory_steps ] >>
        ELSE << >> )

(* line 235: opt['steps'] of a dynamics stage *)
Steps(opts) == Round(opts.time, InNanoseconds(opts.timestep))

(* line 285: total_frames, with trajectory_interval # 0 *)
TotalFrames(opts) == Round(opts.time, opts.trajectory_interval)

(* no platform selection was made *)
NoPlatform == NoRun.platform

(* what a call of the body did: the exception it raised if any, the calls  *)
(* it made in their order, and the values it computed (NoValue if it did   *)
(* not get there); structure is the Parmed structure after the call;       *)
(* passes are the calls of minimizeEnergy of a minimization.               *)
Ran(exc, events, opts, barostat, platform, steps, reporters, frames, structure) ==
    [ exc |-> exc, events |-> events, SimType |-> opts.SimType,
      timestep |-> opts.timestep, temperature |-> opts.temperature,
      pressure |-> opts.pressure, barostat |-> barostat, platform |-> platform,
      steps |-> steps, reporters |-> reporters, total_frames |-> frames,
      passes |-> << >>, structure |-> structure ]

(* lines 347-354: the state written back to the structure: new positions,  *)
(* the box vectors if there is a box, the velocities of a dynamics stage.  *)
WriteBack(structure, simType) ==
    [ structure EXCEPT !.positions = @ + 1,
                       !.velocities = @ \/ simType \in { "nvt", "npt" } ]

(* the second pass started from the positions of the snapshot *)
MinimizePassesFromInput(platform, steps) ==
    << [ platform |-> "Reference", start |-> "positions", maxIterations |-> 0 ],
       [ platform |-> platform, start |-> "positions",
         maxIterations |-> steps ] >>

(* lines 304-330: the two calls of minimizeEnergy in their order, each     *)
(* with the platform of its Simulation, the positions its context was set  *)
(* to, and its maxIterations, 0 for none (the default of the first call,   *)
(* which is given a tolerance alone).                                      *)
MinimizePasses(platform, steps) ==
    << [ platform |-> "Reference", start |-> "positions", maxIterations |-> 0 ],
       [ platform |-> platform, start |-> "state_reference_end",
         maxIterations |-> steps ] >>

(* lines 56-363. body is what the integration does, simulation.step or the *)
(* second simulation.minimizeEnergy: "ok" or "raise".                      *)
Simulation(mdData, dict, body) ==
    LET opts == [ dict EXCEPT !.timestep = StepLen(dict) ]        \* line 84
        md == opts.SimType \in { "nvt", "npt" }
        s0 == mdData.structure
        system == << "createSystem", "LangevinIntegrator" >>     \* 104-115
    IN
    IF ~IsFloat(opts.temperature)
      THEN \* line 115: the integrator takes a number
           Ran("TypeError", system, opts, NoValue, NoPlatform, NoValue, << >>,
               NoValue, s0)
      ELSE
    IF opts.SimType = "npt" /\ ~mdData.box
      THEN Ran("NPT simulation without box vector", system, opts, NoValue,
               NoPlatform, NoValue, << >>, NoValue, s0)          \* line 119
      ELSE
    LET barostat == IF NeedsBarostat(opts.SimType) THEN BarostatFrequency
                                                  ELSE NoValue   \* 117-122
        forces == IF barostat # NoValue THEN << "MonteCarloBarostat" >>
                                        ELSE << >>
        plt == Negotiation                                       \* 160-212
        e1 == system \o forces \o << "Platform" >>
    IN
    IF barostat # NoValue /\ ~IsFloat(opts.pressure)
      THEN \* line 122: the barostat takes a number
           Ran("TypeError", system \o forces, opts, barostat, NoPlatform,
               NoValue, << >>, NoValue, s0)
      ELSE
    IF plt.status = "fatal"
      THEN Ran(plt.error, e1, opts, barostat, plt, NoValue, << >>, NoValue, s0)
      ELSE
    LET e2 == e1 \o << "Simulation", "setPositions" >>
                 \o VelocityPath(opts.SimType, mdData.velocities) \* 215-232
    IN
    IF md
      THEN LET steps == Steps(opts)                               \* line 235
               reps == GetReporters([ opts EXCEPT !.steps = steps ])  \* 238
               frames == IF opts.trajectory_interval # 0
                           THEN TotalFrames(opts) ELSE NoValue    \* 283-285
               e3 == e2 \o << "getReporters", "step" >>          \* line 292
           IN  IF body = "raise"
                 THEN Ran("Exception", e3, opts, barostat, plt, steps, reps,
                          frames, s0)
                 ELSE Ran(None, e3 \o << "getState", "writeBack" >>, opts,
                          barostat, plt, steps, reps, frames,
                          WriteBack(s0, opts.SimType))
      ELSE \* lines 301-345: 'min'
           IF ~GetPlatformByName("Reference")                    \* line 304
             THEN Ran("Exception", e2 \o << "Platform_Reference" >>, opts,
                      barostat, plt, opts.steps, << >>, NoValue, s0)
             ELSE
           LET e3 == e2 \o << "Platform_Reference", "minimizeEnergy_Reference",
                             "setPositions", "minimizeEnergy" >>
               passes == MinimizePasses(plt.platform, opts.steps)
           IN  IF body = "raise"
                 THEN [ Ran("Exception", e3, opts, barostat, plt, opts.steps,
                            << >>, NoValue, s0) EXCEPT !.passes = passes ]
                 ELSE [ Ran(None, e3 \o << "getState", "writeBack" >>, opts,
                            barostat, plt, opts.steps, << >>, NoValue,
                            WriteBack(s0, opts.SimType))
                          EXCEPT !.passes = passes ]

(* utils.MDData(parmed_structure): the structure with its velocities and  *)
(* box vectors, each None when the structure has none; TRUE stands for a   *)
(* value that is not None.                                                 *)
MDData(structure) ==
    [ structure |-> structure, velocities |-> structure.velocities,
      box |-> structure.box ]

(* the values of opt['time'], in millionths: 0, 0.000001, 0.000003 and    *)
(* the default 10.0 of the cubes; the quotients of these by the time steps *)
(* are exact in floating point, halves included.                           *)
TimeValues == { 0, 1, 3, 10000000 }

(* the values of opt['steps'] of a minimization: the default 0 and 100 *)
MinSteps == { 0, 100 }

(* the values of the two intervals: 0 (the default), 0.000001 and 0.5 *)
IntervalValues == { 0, 1, 500000 }

(* the dictionaries process() of the three cubes can hand over: a          *)
(* minimization has 'steps' and no 'time' or interval, the dynamics stages *)
(* have 'time' and the two intervals and get 'steps' at line 235; the      *)
(* temperature is the default 300.0 of the cubes and the NPT cube alone    *)
(* has a pressure, its default 1.0; process() sets outfname and            *)
(* str_logger.                                                             *)
SimOpts ==
    { o \in [ SimType : { "min", "nvt", "npt" }, hmr : BOOLEAN,
              time : TimeValues \cup {NoValue},
              trajectory_interval : IntervalValues \cup {NoValue},
              reporter_interval : IntervalValues \cup {NoValue},
              steps : MinSteps \cup {NoValue}, timestep : {NoValue},
              temperature : { Float(300) }, pressure : { Float(1), Missing },
              outfname : { "" }, str_logger : { << >> } ] :
        /\ IsFloat(o.pressure) <=> o.SimType = "npt"
        /\ IF o.SimType = "min"
             THEN /\ o.steps # NoValue /\ o.time = NoValue
                  /\ o.trajectory_interval = NoValue
                  /\ o.reporter_interval = NoValue
             ELSE /\ o.steps = NoValue /\ o.time # NoValue
                  /\ o.trajectory_interval # NoValue
                  /\ o.reporter_interval # NoValue }

(* the Parmed structures that enter: with or without velocities and box *)
Structures == [ positions : {0}, velocities : BOOLEAN, box : BOOLEAN ]

(* hosts and platform requests of the stage model: no platform at all, the *)
(* Reference platform alone, a CUDA host whose contexts work in double     *)
(* precision only or not at all, and a host with the four platforms.       *)
StageHosts ==
    { n \in [ avail : { {}, { "Reference" }, { "CUDA", "Reference" }, Platforms },
              ctx : { {}, { "double" }, Precisions },
              platform : { "Auto", "CUDA", "Reference" },
              precision : { "single" },
              gpu_id : {NoValue}, runs : { << >> } ] :
        n.avail \cap GpuPlatforms = {} => n.ctx = Precisions }

(* one call of the body of simulation() *)
Simulate ==
    /\ stage.calls = 0
    /\ \E body \in { "ok", "raise" } :
         stage' = [ stage EXCEPT
                      !.calls = 1,
                      !.result = Simulation(MDData(stage.structure), stage.opts,
                                            body) ]
    /\ UNCHANGED << envVars, arbVars, neg, record, cube >>

InitSim ==
    /\ InitEnv
    /\ InitArbiter
    /\ neg \in StageHosts
    /\ record = NoRecord
    /\ cube = NoCall
    /\ stage \in [ structure : Structures, opts : SimOpts, calls : {0},
                   result : {NoRun} ]

NextSim == Simulate

SpecSim == InitSim /\ [][NextSim]_vars

-----------------------------------------------------------------------------
(* The cubes: OpenMMminimizeCube, OpenMMNvtCube, OpenMMNptCube             *)

MaxStages == 1      \* longest stage history of a record that enters
MaxCalls == 2       \* cube invocations on one record

(* standards.py, MDStageNames *)
StageNames == { "SETUP", "MINIMIZATION", "NVT", "NPT", "FEC" }

(* the stage a cube appends: cubes.py lines 203, 457 and 718 *)
StageOf(kind) ==
    CASE kind = "min" -> "MINIMIZATION"
      [] kind = "nvt" -> "NVT"
      [] kind = "npt" -> "NPT"

(* the parameters the cube classes declare: the keys of vars(self.args)    *)
CubeParams(kind) ==
    { "restraints", "restraintWt", "freeze", "temperature", "nonbondedMethod",
      "nonbondedCutoff", "constraints", "center", "verbose", "platform",
      "cuda_opencl_precision", "hmr" }
    \cup (IF kind = "min" THEN { "steps" }
          ELSE { "time", "trajectory_interval", "reporter_interval", "suffix",
                 "upload_ui" })
    \cup (IF kind = "npt" THEN { "pressure" } ELSE {})

(* the keys of the dictionary process() hands to simtools.simulation:      *)
(* begin() adds Logger and SimType, process() adds outfname (NVT and NPT), *)
(* molecule and str_logger; the job identifier stays in the local variable *)
(* system_id.                                                              *)
CubeOptKeys(kind) ==
    CubeParams(kind) \cup { "Logger", "SimType", "molecule", "str_logger" }
    \cup (IF kind = "min" THEN {} ELSE { "outfname" })

(* simtools.simulation called by a process that finds every lock free:     *)
(* wrapper lines 16-51. body is what the simulation body does, "ok" or     *)
(* "raise".                                                                *)
SimulationCall(keys, body) ==
    IF ArbiterActive
      THEN IF "system_id" \notin keys
             THEN [ exc |-> "KeyError", lockAttempts |-> 0, bodyCalls |-> 0 ]
             ELSE IF "system_title" \notin keys
                    THEN [ exc |-> "ValueError", lockAttempts |-> 1, bodyCalls |-> 0 ]
                    ELSE [ exc |-> IF body = "ok" THEN None ELSE "ValueError",
                           lockAttempts |-> 1, bodyCalls |-> 1 ]
      ELSE [ exc |-> IF body = "ok" THEN None ELSE "Exception",
             lockAttempts |-> 0, bodyCalls |-> 1 ]

(* a lookup that takes the oldest stage of the history *)
LastStageOldest(md_stages) == md_stages[1]

(* cubes.py lines 170, 392 and 652: md_stages[-1] *)
LastStage(md_stages) == md_stages[Len(md_stages)]

(* an update that overwrites the most recent stage *)
AppendOverwrites(md_stages, md_stage_record) ==
    [ md_stages EXCEPT ![Len(md_stages)] = md_stage_record ]

(* cubes.py lines 206, 460 and 721: md_stages.append(md_stage_record), on  *)
(* the list record.get_value returned, stored by record.set_value.         *)
AppendStage(md_stages, md_stage_record) == Append(md_stages, md_stage_record)

(* standards.py lines 79-97: MDStageRecord(name, log, MDSystemRecord(      *)
(* molecule, structure), trajectory); a trajectory that is not given, or   *)
(* empty, is stored as ''.                                                 *)
MDStageRecord(name, log, structure, trajectory) ==
    [ name |-> name, log |-> log, system |-> structure,
      trajectory |-> trajectory ]

(* utils.upload(opt['outfname'] + '.h5'): the handle of the uploaded       *)
(* trajectory file, which is not empty                                     *)
Upload(kind) == IF kind = "nvt" THEN "nvt.h5" ELSE "npt.h5"

(* a trajectory uploaded by every dynamics stage *)
TrajectoryAlways(kind, opts) == IF kind # "min" THEN Upload(kind) ELSE ""

(* cubes.py lines 426-429 and 688-691: the trajectory of the new stage,    *)
(* utils.upload(opt['outfname'] + '.h5') or ''; a minimization has none.   *)
Trajectory(kind, opts) ==
    IF kind # "min" /\ opts.trajectory_interval # 0 THEN Upload(kind) ELSE ""

(* the log of the new stage: the cube parameters (lines 144-147), what     *)
(* simulation() adds (line 361) and the reporter file (lines 432-437)      *)
StageLog(kind, opts) ==
    << "CUBE PARAMETERS", "SIMULATION" >>
    \o (IF kind # "min" /\ opts.reporter_interval # 0 THEN << "log" >> ELSE << >>)

(* a record without a primary molecule let through *)
MissingMoleculeIgnored(rec) == FALSE

(* cubes.py lines 149, 371 and 631:                                        *)
(* not record.has_value(Fields.primary_molecule)                           *)
MissingMolecule(rec) == ~rec.hasMol

(* a stage record appended as soon as the simulation has run *)
EmittedPartial(kind, ports, sim, ran, stages, selfOpt) ==
    /\ cube' = [ calls |-> cube.calls + 1, kind |-> kind, input |-> record,
                 ports |-> ports, exc |-> sim.exc,
                 lockAttempts |-> sim.lockAttempts, bodyCalls |-> sim.bodyCalls,
                 config |-> cube.config, self |-> selfOpt ]
    /\ record' = [record EXCEPT !.stages =
                      IF ran.calls > 0 /\ ran.result.exc = None
                         /\ ports # << "success" >>
                        THEN Append(stages, [ name |-> StageOf(kind), log |-> << >>,
                                              system |-> ran.result.structure,
                                              trajectory |-> "" ])
                        ELSE stages]
    /\ stage' = ran

(* what a call of process() leaves: the ports it emitted the record on,   *)
(* the stage history of the record and the dictionary self.opt of the      *)
(* cube; self.failure.emit(record) and self.success.emit(record), cubes.py *)
(* lines 151, 164, 210 and 215.                                            *)
Emitted(kind, ports, sim, ran, stages, selfOpt) ==
    /\ cube' = [ calls |-> cube.calls + 1, kind |-> kind, input |-> record,
                 ports |-> ports, exc |-> sim.exc,
                 lockAttempts |-> sim.lockAttempts, bodyCalls |-> sim.bodyCalls,
                 config |-> cube.config, self |-> selfOpt ]
    /\ record' = [record EXCEPT !.stages = stages]
    /\ stage' = ran

NoSim == [ exc |-> None, lockAttempts |-> 0, bodyCalls |-> 0 ]

(* the SD tags a cube reads: cubes.py lines 180-181, 402-403 and 662-663  *)
AcceptedTags(kind) ==
    IF kind = "npt" THEN { "temperature", "pressure" } ELSE { "temperature" }

(* the SD data values float() converts, with the number it returns; it     *)
(* raises ValueError on every other string.                                *)
Parsed == ("310.0" :> 310) @@ ("2.0" :> 2)

(* cubes.py lines 180-187: new_args, each value converted by float() and   *)
(* left as the string it is when float() raises (except: pass).            *)
NewArgs(kind, tags) ==
    [ k \in DOMAIN tags \cap AcceptedTags(kind) |->
        IF tags[k] \in DOMAIN Parsed THEN Float(Parsed[tags[k]])
                                     ELSE Str(tags[k]) ]

(* cubes.py lines 182-189: opt.update(new_args), if new_args is not empty *)
Update(opts, new_args) ==
    [ opts EXCEPT !.temperature = IF "temperature" \in DOMAIN new_args
                                    THEN new_args["temperature"] ELSE @,
                  !.pressure = IF "pressure" \in DOMAIN new_args
                                 THEN new_args["pressure"] ELSE @ ]

(* cubes.py lines 413 and 675: opt['outfname'], the job identifier joined  *)
(* to self.opt['suffix'], whose defaults are 'nvt' and 'npt'; none in a    *)
(* minimization.                                                           *)
OutFname(kind) == IF kind = "min" THEN "" ELSE kind

(* the dictionary process() hands to simtools.simulation: cubes.py lines   *)
(* 141-193, 359-424 and 619-681.                                           *)
CallOpt(kind, selfOpt, tags) ==
    [ Update(selfOpt, NewArgs(kind, tags)) EXCEPT
          !.outfname = OutFname(kind),
          !.str_logger = << "CUBE PARAMETERS" >> ]

(* the dictionary after the call: simulation() writes 'timestep' (line 84) *)
(* and 'steps' (line 235) and adds to 'str_logger' (line 361), process()   *)
(* adds the reporter file to 'str_logger' (lines 432-437).                 *)
OptWritten(kind, opts, run) ==
    [ opts EXCEPT !.timestep = run.timestep,
                  !.steps = IF run.steps = NoValue THEN @ ELSE run.steps,
                  !.str_logger = IF run.exc = None THEN StageLog(kind, opts)
                                                   ELSE @ ]

(* the name opt bound to the shared dictionary itself *)
LocalOptAlias == "self.opt"

(* cubes.py lines 141, 363 and 623: opt = dict(self.opt), the dictionary   *)
(* the name opt of process() is bound to: a copy of self.opt.              *)
LocalOpt == "dict(self.opt)"

(* self.opt after a call that left the dictionary written in opt: what is  *)
(* written through the name opt reaches self.opt only if opt is self.opt.  *)
SelfOpt(selfOpt, written) ==
    IF LocalOpt = "self.opt" THEN written ELSE selfOpt

(* process() of the three cubes: cubes.py lines 136-217, 358-471, 618-732. *)
(* args is self.opt, the parameters of the cube, body is the outcome of    *)
(* the integration, after is the outcome of what follows the simulation:   *)
(* the trajectory upload, the read-back of the log, the new stage record.  *)
(* record.get_value hands the cube values of its own: what the cube does   *)
(* to the stage list and to the structure reaches the record through       *)
(* record.set_value alone (lines 201 and 208), the last call before        *)
(* success.emit. The SD tags are those of the topology of the last stage,  *)
(* which every new stage record takes over.                                *)
Process(kind, args, body, after) ==
    /\ cube.calls < MaxCalls
    /\ cube.ports \in { << >>, << "success" >> }
    /\ IF MissingMolecule(record)
         THEN \* failure.emit and return
              Emitted(kind, << "failure" >>, NoSim, NoStage, record.stages, args)
         ELSE IF ~record.hasStages
                THEN \* failure.emit without return, then get_value raises
                     Emitted(kind, << "failure", "failure" >>,
                             [ NoSim EXCEPT !.exc = "Exception" ], NoStage,
                             record.stages, args)
                ELSE IF record.stages = << >>
                       THEN \* md_stages[-1] raises IndexError
                            Emitted(kind, << "failure" >>,
                                    [ NoSim EXCEPT !.exc = "IndexError" ],
                                    NoStage, record.stages, args)
                       ELSE
           LET md_stages == record.stages
               parmed_structure == LastStage(md_stages).system
               opts == CallOpt(kind, args, record.tags)
               run == Simulation(MDData(parmed_structure), opts, body)
               sim == SimulationCall(CubeOptKeys(kind),
                                     IF run.exc = None THEN "ok" ELSE "raise")
               ran == [ structure |-> parmed_structure, opts |-> opts,
                        calls |-> sim.bodyCalls,
                        result |-> IF sim.bodyCalls = 0 THEN NoRun ELSE run ]
               written == IF sim.bodyCalls = 0 THEN opts
                          ELSE OptWritten(kind, opts, run)
           IN  IF sim.exc # None
                 THEN Emitted(kind, << "failure" >>, sim, ran, record.stages,
                              SelfOpt(args, written))
                 ELSE IF after = "raise"
                        THEN Emitted(kind, << "failure" >>,
                                     [ sim EXCEPT !.exc = "Exception" ], ran,
                                     record.stages, SelfOpt(args, written))
                        ELSE Emitted(kind, << "success" >>, sim, ran,
                                     AppendStage(md_stages,
                                         MDStageRecord(StageOf(kind),
                                                       written.str_logger,
                                                       run.structure,
                                                       Trajectory(kind, opts))),
                                     SelfOpt(args, written))
    /\ UNCHANGED << envVars, arbVars, neg >>

Outcomes == { "ok", "raise" }

(* the parameters of a cube: the defaults (time 10.0, hmr off, steps 0),   *)
(* with the two intervals at their default 0 or one of them at 0.5.        *)
CubeArgs(kind) ==
    { o \in SimOpts :
        /\ o.SimType = kind /\ ~o.hmr
        /\ o.time \in { NoValue, 10000000 } /\ o.steps \in { NoValue, 0 }
        /\ << o.trajectory_interval, o.reporter_interval >> \in
               { << NoValue, NoValue >>, << 0, 0 >>, << 500000, 0 >>,
                 << 0, 500000 >> } }

(* OpenMMminimizeCube.process *)
MinProcess ==
    \E args \in CubeArgs("min") : \E body, after \in Outcomes :
        Process("min", args, body, after)

(* OpenMMNvtCube.process *)
NvtProcess ==
    \E args \in CubeArgs("nvt") : \E body, after \in Outcomes :
        Process("nvt", args, body, after)

(* OpenMMNptCube.process *)
NptProcess ==
    \E args \in CubeArgs("npt") : \E body, after \in Outcomes :
        Process("npt", args, body, after)

(* the order in which a floe runs the stages *)
StageOrder == << "SETUP", "MINIMIZATION", "NVT", "NPT", "FEC" >>

(* the stage histories that enter: the first n stages of a run, n at most  *)
(* MaxStages, each with a system of its own (all of them with a box or all *)
(* without), no trajectory and an empty log.                               *)
InputStages ==
    UNION { { h \in [ 1 .. n -> [ name : StageNames, log : { << >> },
                                  system : Structures, trajectory : { "" } ] ] :
                \A i \in 1 .. n : /\ h[i].name = StageOrder[i]
                                  /\ h[i].system.box = h[1].system.box } :
            n \in 0 .. MaxStages }

(* the records that enter: with or without a primary molecule, an ID and a *)
(* stage history.                                                          *)
InputRecords ==
    { r \in [ hasMol : BOOLEAN, hasId : BOOLEAN, hasStages : BOOLEAN,
              stages : InputStages, tags : { NoTags } ] :
        ~r.hasStages => r.stages = << >> }

(* the hosts of the cubes: those of the stage model with no platform, the  *)
(* Reference platform alone or the four, every precision supported, and    *)
(* 'Auto' or 'CUDA' requested                                              *)
CubeHosts ==
    { n \in StageHosts : /\ n.platform \in { "Auto", "CUDA" }
                         /\ n.ctx = Precisions
                         /\ n.avail \in { {}, { "Reference" }, Platforms } }

InitCube ==
    /\ InitEnv
    /\ InitArbiter
    /\ neg \in CubeHosts
    /\ record \in InputRecords
    /\ cube = NoCall
    /\ stage = NoStage

NextCube == MinProcess \/ NvtProcess \/ NptProcess

SpecCube == InitCube /\ [][NextCube]_vars

-----------------------------------------------------------------------------
(* One cube and the records it is handed one after the other              *)

(* the SD data of the molecules: none, a temperature or a pressure that    *)
(* float() converts, a temperature or a pressure that it does not          *)
JobTags ==
    { NoTags, [ temperature |-> "310.0" ], [ temperature |-> "abc" ],
      [ pressure |-> "2.0" ], [ pressure |-> "abc" ] }

(* the records that reach the cube: a primary molecule, an ID and the      *)
(* SETUP stage of a solvated system                                        *)
JobRecords ==
    { r \in [ hasMol : { TRUE }, hasId : { TRUE }, hasStages : { TRUE },
              stages : InputStages, tags : JobTags ] :
        /\ Len(r.stages) = 1
        /\ r.stages[1].system = [ positions |-> 0, velocities |-> FALSE,
                                  box |-> TRUE ] }

(* a host with the four platforms, every precision and 'Auto' requested *)
JobHosts ==
    { n \in CubeHosts : n.avail = Platforms /\ n.platform = "Auto" }

(* begin(), cubes.py lines 130-134, 351-355 and 611-615: self.opt is the   *)
(* dictionary of the parameters of the cube with Logger and SimType.       *)
Begin(kind, args) ==
    cube = [ NoCall EXCEPT !.kind = kind, !.config = args, !.self = args ]

(* process() of the cube on the record at its input port *)
JobProcess ==
    /\ cube.self # NoOpts
    /\ \E body, after \in Outcomes :
           Process(cube.kind, cube.self, body, after)

(* the next record reaches the input port *)
NextRecord ==
    /\ cube.calls > 0 /\ cube.calls < MaxCalls
    /\ cube.ports # << >>
    /\ record' \in JobRecords
    /\ cube' = [ cube EXCEPT !.ports = << >> ]
    /\ UNCHANGED << envVars, arbVars, neg, stage >>

InitJobs ==
    /\ InitEnv
    /\ InitArbiter
    /\ neg \in JobHosts
    /\ record \in JobRecords
    /\ \E kind \in { "min", "nvt", "npt" } : \E args \in CubeArgs(kind) :
           Begin(kind, args)
    /\ stage = NoStage

NextJobs == JobProcess \/ NextRecord

SpecJobs == InitJobs /\ [][NextJobs]_vars

-----------------------------------------------------------------------------
(* Properties of the arbiter, stated for Spec.                            *)

(* the processes inside the region from the successful flock to the unlock *)
(* of device d                                                             *)
InBody(d) == { p \in Procs : pc[p] = "body" /\ opt[p].gpu_id = d }

(* C1: mutual exclusion - in every reachable state at most one process is  *)
(* executing the simulation body (successful flock until unlock/close) for *)
(* any given device, whatever the pool and the job identifiers.            *)
C1_MutualExclusion ==
    \A d \in DeviceIds : Cardinality(InBody(d)) <= 1

(* C1 witness: on a 2-device pool the jobs 0 and 2 met on one device: one  *)
(* is in its body, the other was refused the lock of that device.          *)
C1_Witness ==
    /\ Len(gpus) = 2
    /\ \E p, q \in Procs :
         /\ opt[p].system_id = 0 /\ opt[q].system_id = 2
         /\ pc[p] = "body"
         /\ pc[q] \in { "sleeping", "raised" }
         /\ hist[q].tried = { opt[p].gpu_id }
         /\ hist[q].bodyCalls = 0

(* C2: no lease leak - after the wrapper call of a job has ended, by a     *)
(* normal return of the body or by an error raised out of the wrapper, the *)
(* job holds no device lock.                                               *)
C2_NoLeaseLeak ==
    \A p \in Procs :
        pc[p] \in { "returned", "raised" } => \A d \in DeviceIds : lock[d] # p

(* C2 witness: a call that had the lock ended because its body raised.     *)
C2_Witness ==
    \E p \in Procs :
        /\ pc[p] = "raised"
        /\ outcome[p].cause = "body"
        /\ "gpu_id" \in opt[p].keys

(* C3: contention is never surfaced as failure - no wrapper call ends in   *)
(* an error whose only cause is that the device was busy.                  *)
C3_ContentionNeverFails ==
    \A p \in Procs :
        pc[p] = "raised" => outcome[p].cause # "contention"

(* C4: deterministic device choice - every lock attempt of a job targets   *)
(* D[j mod len(D)], the device recorded for the body is that device, and   *)
(* the job holds the lock of no other device.                              *)
C4_SameDevice ==
    \A p \in Procs :
        "system_id" \in opt[p].keys /\ gpus # << >> =>
            LET dev == gpus[(opt[p].system_id % Len(gpus)) + 1] IN
            /\ hist[p].tried \subseteq { dev }
            /\ "gpu_id" \in opt[p].keys => opt[p].gpu_id = dev
            /\ \A d \in DeviceIds : lock[d] = p => d = dev

(* C4 witness: a job that slept after contention is in its body on a pool  *)
(* of two devices.                                                         *)
C4_Witness ==
    \E p \in Procs :
        /\ Len(gpus) = 2
        /\ pc[p] = "body"
        /\ hist[p].slept
        /\ hist[p].bodyCalls = 1

(* C5: errors of the body are never retried - the body is invoked at most  *)
(* once per wrapper call, so no call returns normally after its body has   *)
(* failed.                                                                 *)
C5_BodyInvokedOnce ==
    \A p \in Procs : hist[p].bodyCalls <= 1

(* C6: arbiter bypass - in the managed cluster or without a device list    *)
(* the body is invoked exactly once, no lock is taken, no audit line is    *)
(* written, opt['gpu_id'] is not set, the call neither sleeps nor retries, *)
(* and an exception of the body leaves the wrapper unchanged.              *)
C6_Bypass ==
    (inOrion \/ ~cudaVisible) =>
        /\ \A d \in DeviceIds : lock[d] = Free /\ audit[d] = {}
        /\ \A p \in Procs :
             /\ pc[p] \in { "idle", "bypass", "returned", "raised" }
             /\ hist[p].bodyCalls = IF pc[p] = "idle" THEN 0 ELSE 1
             /\ hist[p].tried = {} /\ ~hist[p].slept
             /\ "gpu_id" \notin opt[p].keys
             /\ pc[p] = "raised" =>
                    outcome[p].exc \in BodyExc /\ outcome[p].cause = "body"

(* C6 witness: in the managed cluster, with a device list set, a call has  *)
(* returned and another has raised the exception of its body.              *)
C6_Witness ==
    /\ inOrion /\ cudaVisible
    /\ \E p, q \in Procs :
         /\ pc[p] = "returned"
         /\ pc[q] = "raised" /\ outcome[q].exc = "IOError_EACCES"

(* the step is a lock attempt of q *)
Attempts(q) ==
    /\ pc[q] \in { "loop", "sleeping" }
    /\ "system_id" \in opt[q].keys
    /\ pc'[q] # pc[q] \/ hist'[q] # hist[q]

(* C7: a killed job does not strand its device - when a process that holds *)
(* a device lock is terminated the lock becomes free, and a lock attempt   *)
(* on a device is granted exactly when the OS-level lock of that device is *)
(* free, whatever lines the lock file holds.                               *)
C7_KilledJobFreesDevice ==
    [][ \A p \in Procs :
          /\ pc[p] # "killed" /\ pc'[p] = "killed" =>
                 \A d \in DeviceIds : lock'[d] # p /\ (lock[d] = p => lock'[d] = Free)
          /\ Attempts(p) =>
                 LET dev == gpus[(opt[p].system_id % Len(gpus)) + 1] IN
                 (pc'[p] = "body" /\ lock'[dev] = p) <=> lock[dev] = Free
      ]_vars

(* C7 witness: a job runs its body on the device a killed job held, whose  *)
(* line is still in the lock file.                                         *)
C7_Witness ==
    \E p, q \in Procs :
        /\ pc[p] = "killed"
        /\ pc[q] = "body"
        /\ opt[q].gpu_id = opt[p].gpu_id
        /\ hist[q].slept
        /\ AuditLine(p, opt[p].gpu_id) \in audit[opt[q].gpu_id]

(* the wrapper call of p is under way *)
Running(p) == pc[p] \in { "loop", "sleeping", "body", "bypass" }

(* C28: completion of a finite workload - with every process treated       *)
(* fairly and every call of the body ending, by a return or by an          *)
(* exception, the wrapper call of each job eventually ends: a job that     *)
(* waits for its device gets it once the holders have released it, and no  *)
(* job waits forever.                                                      *)
C28_Completion ==
    \A p \in Procs : Running(p) ~> ~Running(p)

(* C29: no cross-device interference - a job enters the sleep-and-retry   *)
(* path only when the lock of its own target device D[j mod len(D)] is     *)
(* held by another process at that moment; a job whose target device is    *)
(* free acquires it on that attempt, whatever other devices are held or    *)
(* contended, so that jobs of different devices never delay each other.    *)
C29_NoCrossDeviceInterference ==
    [][ \A p \in Procs :
          ("system_id" \in opt[p].keys /\ gpus # << >>) =>
              LET dev == gpus[(opt[p].system_id % Len(gpus)) + 1] IN
              /\ (pc[p] # "sleeping" /\ pc'[p] = "sleeping") =>
                     lock[dev] \notin { Free, p }
              /\ (Attempts(p) /\ lock[dev] = Free) =>
                     pc'[p] = "body" /\ lock'[dev] = p
      ]_vars

(* the part of C29 that is about lock attempts alone *)
C29_AttemptsOnly ==
    [][ \A p \in Procs :
          Attempts(p) =>
              LET dev == gpus[(opt[p].system_id % Len(gpus)) + 1] IN
              /\ pc'[p] = "sleeping" => lock[dev] \notin { Free, p }
              /\ lock[dev] = Free => pc'[p] = "body" /\ lock'[dev] = p
      ]_vars

(* two jobs of different devices in their bodies at the same time *)
C29_SideBySide ==
    \E p, q \in Procs :
        /\ pc[p] = "body" /\ pc[q] = "body"
        /\ opt[p].gpu_id # opt[q].gpu_id

-----------------------------------------------------------------------------
(* Properties of the platform selection, stated for SpecNeg.              *)

AutoRuns == IF neg.platform = "Auto" THEN { neg.runs[i] : i \in DOMAIN neg.runs } ELSE {}

(* C9: with platform = 'Auto' the selected back-end is the first of CUDA,  *)
(* OpenCL, CPU, Reference that the host has; the selection fails with the  *)
(* fatal error exactly when the host has none of the four; repeating it on *)
(* the same host gives the same result; with Reference alone the result is *)
(* Reference.                                                              *)
C9_AutoPlatform ==
    LET order == << "CUDA", "OpenCL", "CPU", "Reference" >>
        has == { i \in 1 .. 4 : order[i] \in neg.avail }
    IN  \A r \in AutoRuns :
          /\ (r.error = "no platform") <=> (has = {})
          /\ has # {} =>
               LET first == CHOOSE i \in has : \A j \in has : i <= j IN
               /\ r.platformsTried = SubSeq(order, 1, first)
               /\ r.status = "ok" => r.platform = order[first]
               /\ r.status = "fatal" =>
                      order[first] \in { "CUDA", "OpenCL" } /\ r.error = "no precision"
          /\ neg.avail = { "Reference" } =>
               r.status = "ok" /\ r.platform = "Reference"
          /\ \A r2 \in AutoRuns : r2 = r

(* C9 witness: Auto was negotiated twice on a host without CUDA that has   *)
(* OpenCL and CPU, and OpenCL was selected.                                *)
C9_Witness ==
    /\ neg.platform = "Auto"
    /\ Len(neg.runs) = 2
    /\ neg.avail = { "OpenCL", "CPU", "Reference" }
    /\ neg.runs[2].platform = "OpenCL"

(* C10: when Auto resolves to CUDA or OpenCL the precisions are tried in   *)
(* the order mixed, single, double and the first for which the context can *)
(* be created is used; if none can, the stage fails and no CPU or          *)
(* Reference back-end is used; when Auto resolves to CPU or Reference no   *)
(* precision is negotiated.                                                *)
C10_AutoPrecision ==
    LET order == << "mixed", "single", "double" >>
        works == { i \in 1 .. 3 : order[i] \in neg.ctx }
        gpu == neg.avail \cap { "CUDA", "OpenCL" } # {}
    IN  \A r \in AutoRuns :
          /\ gpu /\ works # {} =>
               LET first == CHOOSE i \in works : \A j \in works : i <= j IN
               /\ r.status = "ok"
               /\ r.platform \in { "CUDA", "OpenCL" }
               /\ r.precision = order[first]
               /\ r.precisionsTried = SubSeq(order, 1, first)
          /\ gpu /\ works = {} =>
               /\ r.status = "fatal" /\ r.error = "no precision"
               /\ r.platform = None
               /\ r.precisionsTried = order
               /\ r.platformsTried \in { << "CUDA" >>, << "CUDA", "OpenCL" >> }
          /\ ~gpu => r.precision = None /\ r.precisionsTried = << >>

(* C10 witness: on a host with CUDA and CPU where only double works the    *)
(* three precisions were tried and double is used.                         *)
C10_Witness ==
    /\ neg.platform = "Auto"
    /\ neg.avail = { "CUDA", "CPU", "Reference" }
    /\ neg.ctx = { "double" }
    /\ Len(neg.runs) >= 1
    /\ neg.runs[1].precisionsTried = << "mixed", "single", "double" >>
    /\ neg.runs[1].precision = "double"

ExplicitRuns ==
    IF neg.platform # "Auto" THEN { neg.runs[i] : i \in DOMAIN neg.runs } ELSE {}

(* C11: no silent fallback under an explicit preference - with platform    *)
(* Reference, CPU, CUDA or OpenCL exactly that back-end is attempted and,  *)
(* for CUDA and OpenCL, exactly the requested precision; the selection is  *)
(* fatal exactly when the host lacks the back-end or the precision cannot  *)
(* be set, and nothing else is ever tried or used.                         *)
C11_ExplicitNoFallback ==
    LET gpu == neg.platform \in { "CUDA", "OpenCL" }
        has == neg.platform \in neg.avail
    IN  \A r \in ExplicitRuns :
          /\ r.platformsTried = << neg.platform >>
          /\ r.precisionsTried = IF gpu /\ has THEN << neg.precision >> ELSE << >>
          /\ (r.status = "fatal") <=> (~has \/ (gpu /\ neg.precision \notin neg.ctx))
          /\ r.status = "fatal" => r.platform = None /\ r.precision = None
          /\ r.status = "ok" =>
                /\ r.platform = neg.platform
                /\ r.precision = IF gpu THEN neg.precision ELSE None

(* C11 witness: CUDA with single precision was requested on a host that    *)
(* has OpenCL, CPU and Reference but no CUDA, and the selection was fatal  *)
(* after CUDA alone was tried.                                             *)
C11_Witness ==
    /\ neg.platform = "CUDA" /\ neg.precision = "single"
    /\ neg.avail = { "OpenCL", "CPU", "Reference" }
    /\ neg.ctx = Precisions
    /\ Len(neg.runs) >= 1
    /\ neg.runs[1].status = "fatal"
    /\ neg.runs[1].platformsTried = << "CUDA" >>

(* C12: device pinning - whenever the body runs under a lease (gpu_id set  *)
(* by the arbiter, CUDA_VISIBLE_DEVICES present, not in the managed        *)
(* cluster) and the resolved back-end is CUDA or OpenCL, the context is    *)
(* created with its device index set to the leased device, for Auto and    *)
(* for an explicitly requested CUDA or OpenCL alike.                       *)
C12_DevicePinned ==
    \A i \in DOMAIN neg.runs :
        ( /\ neg.gpu_id # NoValue /\ cudaVisible /\ ~inOrion
          /\ neg.runs[i].status = "ok"
          /\ neg.runs[i].platform \in { "CUDA", "OpenCL" } )
        => neg.runs[i].deviceIndex = neg.gpu_id

-----------------------------------------------------------------------------
(* Properties of the cubes, stated for SpecCube.                          *)

(* C8: with the arbiter active, every call of simtools.simulation made by  *)
(* a cube for a record that has a primary molecule and a non-empty stage   *)
(* history hands the arbiter the job identifier it reads, so the job       *)
(* reaches the lock attempt on its device and runs the stage instead of    *)
(* failing before any lock attempt.                                        *)
C8_CubeReachesLock ==
    ( /\ cudaVisible /\ ~inOrion
      /\ cube.calls > 0
      /\ cube.input.hasMol /\ cube.input.hasStages
      /\ cube.input.stages # << >> )
    => /\ cube.exc # "KeyError"
       /\ cube.lockAttempts >= 1
       /\ cube.bodyCalls >= 1

Has(events, e) == \E i \in DOMAIN events : events[i] = e

Names(md_stages) == [ i \in DOMAIN md_stages |-> md_stages[i].name ]

(* the step is a call of process() *)
Invoked == cube'.calls = cube.calls + 1

(* C13: append-only history - every successful invocation of a cube turns  *)
(* the stage list into the same list followed by one new StageRecord named *)
(* after the stage that ran (MINIMIZATION, NVT, NPT): the length grows by   *)
(* exactly one, and the StageRecords already present (name, log, system,   *)
(* trajectory) are unchanged and keep their positions; so after any        *)
(* sequence of successful invocations the list is the input list followed  *)
(* by one record per invocation, in invocation order.                      *)
C13_AppendOnly ==
    [][ Invoked /\ cube'.ports = << "success" >> =>
          /\ Len(record'.stages) = Len(record.stages) + 1
          /\ SubSeq(record'.stages, 1, Len(record.stages)) = record.stages
          /\ record'.stages[Len(record'.stages)].name =
                 CASE cube'.kind = "min" -> "MINIMIZATION"
                   [] cube'.kind = "nvt" -> "NVT"
                   [] cube'.kind = "npt" -> "NPT"
      ]_vars

(* C13 witness: a record that entered with its SETUP stage went through    *)
(* the NVT and then the NPT cube.                                          *)
C13_Witness ==
    /\ cube.calls = 2 /\ cube.ports = << "success" >>
    /\ Names(record.stages) = << "SETUP", "NVT", "NPT" >>
    /\ record.stages[2].trajectory = "nvt.h5"

(* C14: no partial StageRecord on failure - whenever process() ends on the *)
(* failure path (an input is missing, or a step of the simulation, the     *)
(* trajectory upload, the log read-back or the record construction raises) *)
(* the record emitted has exactly the stage history it had on input; a     *)
(* StageRecord is appended only on the path that ends in success.emit.     *)
C14_NoPartialStage ==
    cube.calls > 0 =>
        /\ Has(cube.ports, "failure") => record.stages = cube.input.stages
        /\ record.stages # cube.input.stages => cube.ports = << "success" >>

(* C14 witness: the simulation of an NVT stage ran to its end and a step   *)
(* after it raised.                                                        *)
C14_Witness ==
    /\ cube.kind = "nvt" /\ cube.ports = << "failure" >>
    /\ stage.calls = 1 /\ stage.result.exc = None
    /\ Has(stage.result.events, "writeBack")
    /\ Len(record.stages) = 1

(* C15: snapshot chaining - on a history of n >= 1 StageRecords the stage  *)
(* run by any of the three cubes takes its structure (positions,           *)
(* velocities, box) from the system of the last StageRecord and from no    *)
(* other; so in a sequence of stages each one starts from the system the   *)
(* stage before it left.                                                   *)
C15_SnapshotChaining ==
    [][ Invoked /\ stage'.calls > 0 =>
          /\ record.stages # << >>
          /\ stage'.structure = record.stages[Len(record.stages)].system
          /\ (cube.ports = << "success" >> /\ stage.calls > 0) =>
                 stage'.structure = stage.result.structure
      ]_vars

(* C15 witness: an NVT stage started from the system a minimization left,  *)
(* which is not the system of the SETUP stage.                             *)
C15_Witness ==
    /\ cube.calls = 2 /\ cube.kind = "nvt" /\ cube.ports = << "success" >>
    /\ Names(record.stages) = << "SETUP", "MINIMIZATION", "NVT" >>
    /\ stage.structure = record.stages[2].system
    /\ stage.structure # record.stages[1].system

(* C16, as claimed: strict stage ordering - the simulation of an NVT stage *)
(* never starts unless the history holds a MINIMIZATION StageRecord, that  *)
(* of an NPT stage never unless it holds an NVT StageRecord, and that of a *)
(* minimization never once it holds an NVT or NPT StageRecord.             *)
C16_StrictOrdering ==
    stage.calls > 0 =>
        LET names == { cube.input.stages[i].name : i \in DOMAIN cube.input.stages }
        IN  /\ cube.kind = "nvt" => "MINIMIZATION" \in names
            /\ cube.kind = "npt" => "NVT" \in names
            /\ cube.kind = "min" => names \cap { "NVT", "NPT" } = {}

(* C16, as amended: the simulation of a stage never starts unless the      *)
(* record has a primary molecule and a stage history of at least one       *)
(* StageRecord, whatever the names of its records.                         *)
C16_InputsPresent ==
    stage.calls > 0 =>
        /\ cube.input.hasMol
        /\ cube.input.hasStages
        /\ cube.input.stages # << >>

(* C16 witness: the simulation of an NVT stage ran on a history that holds *)
(* the SETUP stage alone.                                                  *)
C16_Witness ==
    /\ cube.kind = "nvt" /\ stage.calls = 1
    /\ Has(stage.result.events, "step")
    /\ Names(cube.input.stages) = << "SETUP" >>

(* C17: NPT requires a box - an NPT stage whose input system has no box    *)
(* fails with the fatal error before any platform is selected and before   *)
(* any integration step, and no StageRecord is appended; an NPT stage with *)
(* a box attaches the barostat with frequency 25; minimization and NVT     *)
(* stages never attach one.                                                *)
C17_NptRequiresBox ==
    LET input == cube.input
        r == stage.result
    IN  /\ ( /\ cube.calls > 0 /\ cube.kind = "npt"
             /\ input.hasMol /\ input.hasStages /\ input.stages # << >>
             /\ ~input.stages[Len(input.stages)].system.box )
           => /\ cube.ports = << "failure" >>
              /\ record.stages = input.stages
              /\ ~Has(r.events, "Platform") /\ ~Has(r.events, "Simulation")
              /\ ~Has(r.events, "step") /\ ~Has(r.events, "MonteCarloBarostat")
              /\ stage.calls > 0 => r.exc = "NPT simulation without box vector"
        /\ (stage.calls > 0 /\ cube.kind = "npt" /\ stage.structure.box)
           => r.barostat = 25 /\ Has(r.events, "MonteCarloBarostat")
        /\ (stage.calls > 0 /\ cube.kind \in { "min", "nvt" })
           => r.barostat = NoValue /\ ~Has(r.events, "MonteCarloBarostat")

(* C17 witness: the body of an NPT stage was called on a system without a  *)
(* box and raised the error.                                               *)
C17_Witness ==
    /\ cube.kind = "npt" /\ stage.calls = 1
    /\ ~stage.structure.box
    /\ stage.result.exc = "NPT simulation without box vector"
    /\ cube.ports = << "failure" >>

(* C23: an empty history is a valid input - a cube invoked on a record     *)
(* with a primary molecule and a stage history of length zero takes the    *)
(* run as not yet started and runs its stage, instead of reporting the job *)
(* as failed.                                                              *)
C23_EmptyHistoryValid ==
    ( /\ cube.calls > 0
      /\ cube.input.hasMol /\ cube.input.hasStages
      /\ cube.input.stages = << >>
      /\ ~ArbiterActive )
    => /\ cube.exc # "IndexError"
       /\ stage.calls > 0
       /\ cube.ports = << "failure" >> => stage.result.exc # None

(* the trajectory and the log of the stage record the last call appended *)
Appended == record.stages[Len(record.stages)]

(* C25: trajectory handle presence - the StageRecord an NVT or NPT stage   *)
(* appends has a non-empty trajectory if and only if trajectory_interval   *)
(* was not zero for the job, and its log holds the content of the log file *)
(* if and only if reporter_interval was not zero; the StageRecord of a     *)
(* minimization always has an empty trajectory.                            *)
C25_TrajectoryHandle ==
    (cube.calls > 0 /\ cube.ports = << "success" >>) =>
        /\ Appended.name = StageOf(cube.kind)
        /\ IF cube.kind = "min"
             THEN Appended.trajectory = "" /\ ~Has(Appended.log, "log")
             ELSE /\ Appended.trajectory # "" <=>
                         stage.opts.trajectory_interval # 0
                  /\ Has(Appended.log, "log") <=>
                         stage.opts.reporter_interval # 0
                  /\ Appended.trajectory # "" =>
                         Has(stage.result.reporters,
                             [ sink |-> "h5", reportInterval |-> 250000 ])

(* C25 witness: an NPT stage with the trajectory on and the log off left a *)
(* StageRecord with a trajectory and without the log file.                 *)
C25_Witness ==
    /\ cube.kind = "npt" /\ cube.ports = << "success" >>
    /\ stage.opts.trajectory_interval = 500000
    /\ stage.opts.reporter_interval = 0
    /\ Appended.trajectory = "npt.h5"
    /\ Appended.log = << "CUBE PARAMETERS", "SIMULATION" >>

(* C26: exactly-once emission - every call of process() emits the record   *)
(* exactly once, on the success port or on the failure port, whatever the  *)
(* input: a record without a primary molecule, a record without a stage    *)
(* history, a record whose simulation raises.                              *)
C26_ExactlyOnce ==
    cube.calls > 0 => Len(cube.ports) = 1

-----------------------------------------------------------------------------
(* Properties of the body of a stage, stated for SpecSim.                 *)

Count(events, e) == Cardinality({ i \in DOMAIN events : events[i] = e })

(* the body got as far as the velocities: the platform was selected *)
Seeded == stage.calls > 0 /\ stage.result.platform.status = "ok"

(* C18: restart and fresh start are exclusive and exhaustive - an NVT or   *)
(* NPT stage that gets to its velocities takes exactly one of the two      *)
(* paths, the velocities of the snapshot when they are not null and        *)
(* thermal velocities when they are null; a minimization takes neither,    *)
(* and so does a stage that fails before.                                  *)
C18_VelocityPaths ==
    stage.calls > 0 =>
        LET restart == Count(stage.result.events, "setVelocities")
            fresh == Count(stage.result.events, "setVelocitiesToTemperature")
        IN  IF stage.opts.SimType \in { "nvt", "npt" } /\ Seeded
              THEN /\ restart + fresh = 1
                   /\ (restart = 1) <=> stage.structure.velocities
              ELSE restart = 0 /\ fresh = 0

(* C18 witness: an NPT stage restarted from the velocities of its snapshot *)
(* and ran to its end.                                                     *)
C18_Witness ==
    /\ stage.calls = 1 /\ stage.opts.SimType = "npt"
    /\ stage.structure.velocities
    /\ Has(stage.result.events, "setVelocities")
    /\ stage.result.exc = None

(* C19: step-count conversion - the number of steps of an NVT or NPT stage *)
(* is the requested time divided by the time step, both in picoseconds     *)
(* (0.004 ps with hmr, else 0.002 ps), rounded to an integer, and the      *)
(* stage integrates that many steps; time = 10.0 with hmr off gives 5000.  *)
C19_StepCount ==
    (Seeded /\ stage.opts.SimType \in { "nvt", "npt" }) =>
        LET ps == (IF stage.opts.hmr THEN 4 ELSE 2) * 1000
            q == stage.opts.time \div ps
            r == stage.opts.time % ps
            steps == IF 2 * r < ps \/ (2 * r = ps /\ q % 2 = 0) THEN q ELSE q + 1
        IN  /\ stage.result.steps = steps
            /\ (stage.opts.time = 10000000 /\ ~stage.opts.hmr) =>
                   stage.result.steps = 5000

(* the reportInterval of the reporter that writes to sink *)
Period(sink) ==
    { stage.result.reporters[i].reportInterval :
        i \in { j \in DOMAIN stage.result.reporters :
                  stage.result.reporters[j].sink = sink } }

(* C20: sampling-interval conversion - the period of the trajectory in     *)
(* steps is the trajectory interval divided by the time step, both in      *)
(* picoseconds, rounded to an integer, and the period of the log is        *)
(* derived from the log interval in the same way; trajectory_interval =    *)
(* 0.5 with the time step 0.002 ps gives 250 steps and, for a run of 10.0, *)
(* 20 frames.                                                              *)
C20_SamplingPeriod ==
    (Seeded /\ stage.opts.SimType \in { "nvt", "npt" }) =>
        LET ps == (IF stage.opts.hmr THEN 4 ELSE 2) * 1000
            Conv(t) == LET q == t \div ps
                           r == t % ps
                       IN  IF 2 * r < ps \/ (2 * r = ps /\ q % 2 = 0)
                             THEN q ELSE q + 1
        IN  /\ stage.opts.trajectory_interval # 0 =>
                   Period("h5") = { Conv(stage.opts.trajectory_interval) }
            /\ stage.opts.reporter_interval # 0 =>
                   Period("log") = { Conv(stage.opts.reporter_interval) }
            /\ (stage.opts.trajectory_interval = 500000 /\ ~stage.opts.hmr) =>
                   /\ Period("h5") = { 250 }
                   /\ stage.opts.time = 10000000 => stage.result.total_frames = 20


(* the sinks of the reporters the stage attached *)
Sinks == { stage.result.reporters[i].sink : i \in DOMAIN stage.result.reporters }

C21_LogAlone ==
    /\ stage.calls = 1 /\ stage.opts.SimType = "npt"
    /\ stage.opts.trajectory_interval = 0 /\ stage.opts.reporter_interval # 0
    /\ Sinks = { "log", "stdout" }

C21_Both ==
    /\ stage.calls = 1 /\ Sinks = { "log", "stdout", "h5" }

C21_Neither ==
    /\ stage.calls = 1 /\ stage.opts.SimType = "nvt" /\ Seeded
    /\ stage.result.exc = None /\ Sinks = {}

(* the place of the first e among the events, 0 if there is none *)
At(events, e) ==
    IF Has(events, e)
      THEN CHOOSE i \in DOMAIN events :
               events[i] = e /\ \A j \in 1 .. i - 1 : events[j] # e
      ELSE 0

(* the minimization got to its second pass *)
Minimized ==
    /\ stage.calls > 0 /\ stage.opts.SimType = "min"
    /\ Has(stage.result.events, "minimizeEnergy")

(* C24: two-pass minimization - in a minimization the pass on the          *)
(* Reference platform runs first and is over before the pass on the        *)
(* selected platform starts; the second pass starts from the positions the *)
(* first one ended with, not from those of the snapshot; the positions     *)
(* written to the snapshot are read after the second pass; steps is the    *)
(* iteration limit of the second pass alone, 0 standing for none, and the  *)
(* first pass has no limit.                                                *)
C24_TwoPassMinimization ==
    /\ Minimized =>
         LET r == stage.result
             ev == r.events
         IN  /\ Len(r.passes) = 2
             /\ r.passes[1].platform = "Reference"
             /\ r.passes[1].maxIterations = 0
             /\ r.passes[2].platform = r.platform.platform
             /\ r.passes[2].start = "state_reference_end"
             /\ r.passes[2].maxIterations = stage.opts.steps
             /\ Count(ev, "minimizeEnergy_Reference") = 1
             /\ Count(ev, "minimizeEnergy") = 1
             /\ At(ev, "minimizeEnergy_Reference") < At(ev, "minimizeEnergy")
             /\ r.exc = None =>
                    /\ At(ev, "minimizeEnergy") < At(ev, "getState")
                    /\ At(ev, "getState") < At(ev, "writeBack")
                    /\ r.structure.positions # stage.structure.positions
             /\ ~Has(ev, "step")
    /\ (stage.calls > 0 /\ stage.opts.SimType # "min") =>
           /\ stage.result.passes = << >>
           /\ ~Has(stage.result.events, "minimizeEnergy_Reference")

(* C24 witness: a minimization with steps = 100 on a CUDA platform ran its *)
(* two passes and wrote the positions.                                     *)
C24_Witness ==
    /\ Minimized /\ stage.result.exc = None
    /\ stage.opts.steps = 100
    /\ stage.result.platform.platform = "CUDA"
    /\ stage.result.passes[2].maxIterations = 100
    /\ Has(stage.result.events, "writeBack")

(* C24 witness for steps = 0: the second pass runs until convergence *)
C24_UntilConvergence ==
    /\ Minimized /\ stage.result.exc = None /\ stage.opts.steps = 0
    /\ stage.result.passes[2].maxIterations = 0


(* C30: enabled samplers have a positive period - for every trajectory or  *)
(* reporter interval that is not zero and either time step, the period in  *)
(* steps getReporters computes is an integer of at least 1, an interval    *)
(* below one time step included.                                           *)
C30_PositivePeriod ==
    (Seeded /\ stage.opts.SimType \in { "nvt", "npt" }) =>
        \A i \in DOMAIN stage.result.reporters :
            stage.result.reporters[i].reportInterval >= 1

-----------------------------------------------------------------------------
(* Properties of one cube over its records, stated for SpecJobs.          *)

(* the call had its inputs: it got as far as the SD tags *)
ReadTags ==
    /\ cube.calls > 0 /\ cube.ports # << >>
    /\ cube.input.hasMol /\ cube.input.hasStages /\ cube.input.stages # << >>

(* C22: unparseable per-system overrides are ignored - when the SD data of *)
(* the input carry a key the cube accepts (temperature; for NPT also       *)
(* pressure) whose value is not a number, the stage runs with the value    *)
(* the cube was configured with and does not fail because of the override; *)
(* a value that is a number replaces the configured one for that job.      *)
C22_UnparseableIgnored ==
    ReadTags =>
        \A k \in DOMAIN cube.input.tags \cap AcceptedTags(cube.kind) :
            IF cube.input.tags[k] \in DOMAIN Parsed
              THEN stage.opts[k] = Float(Parsed[cube.input.tags[k]])
              ELSE /\ stage.opts[k] = cube.config[k]
                   /\ stage.calls > 0 => stage.result.exc # "TypeError"

(* C27: no cross-job parameter bleed - a call of process() leaves self.opt *)
(* as begin() made it: the overrides of temperature and pressure, the      *)
(* output prefix and what the simulation writes (timestep, steps, the log  *)
(* text) go to the dictionary of the call alone; so the parameters a       *)
(* record is run with are those of the cube with the overrides of that     *)
(* record, whatever records the cube handled before.                       *)
C27_NoParameterBleed ==
    cube.calls > 0 =>
        /\ cube.self = cube.config
        /\ ReadTags =>
             LET tags == cube.input.tags
                 Used(k) == IF k \in DOMAIN tags \cap AcceptedTags(cube.kind)
                              THEN IF tags[k] \in DOMAIN Parsed
                                     THEN Float(Parsed[tags[k]])
                                     ELSE Str(tags[k])
                              ELSE cube.config[k]
             IN  /\ stage.opts.temperature = Used("temperature")
                 /\ stage.opts.pressure = Used("pressure")
                 /\ \A k \in { "SimType", "hmr", "time", "trajectory_interval",
                               "reporter_interval", "steps", "timestep" } :
                        stage.opts[k] = cube.config[k]
                 /\ stage.opts.str_logger = << "CUBE PARAMETERS" >>

(* C27 witness: the second record of an NVT cube was run at the 310.0 of   *)
(* its SD data, the simulation wrote the time step and the steps, and      *)
(* self.opt still holds 300.0 and neither time step nor steps.             *)
C27_Witness ==
    /\ cube.calls = 2 /\ cube.kind = "nvt" /\ cube.ports = << "success" >>
    /\ stage.calls = 1
    /\ stage.result.temperature = Float(310)
    /\ stage.result.timestep = 2 /\ stage.result.steps = 5000000
    /\ cube.self.temperature = Float(300)
    /\ cube.self.timestep = NoValue /\ cube.self.steps = NoValue
=============================================================================
